---- MODULE Spec2Model ----
(***************************************************************************)
(* Model of batch_make_feeds.py: the batch RSS generator that reads rows   *)
(* (name, url) from a spreadsheet, writes one feed file per row and then   *)
(* an OPML index of the output directory.                                  *)
(*                                                                         *)
(* Python strings are modelled as sequences of one-character strings, so   *)
(* that strip, lower, the regular-expression substitutions, endswith,      *)
(* rstrip, sorted and html.escape are computed character by character.     *)
(***************************************************************************)
EXTENDS Integers, Sequences, FiniteSets, TLC

VARIABLES
    \* ---- slugify harness ----
    text,        \* the argument of slugify
    slug,        \* slugify(text)
    reslug,      \* slugify(slugify(text))
    spc,         \* position of the harness: "start", "slugged", "done"
    \* ---- extract_items_generic harness ----
    soup,        \* the parsed document
    base_url,    \* the URL of the page
    extracted,   \* what extract_items_generic did: [raised, out]
    epc,         \* position of the harness: "start", "done"
    \* ---- main ----
    BASE_URL,    \* the configured base URL of the published feeds (line 26)
    args_out,    \* --out: the output directory
    sheet,       \* the first worksheet: [headers, data]
    dir,         \* the output directory: file name -> content
    dir0,        \* history: the output directory when the run started
    rows,        \* the valid rows read_excel_rows returned
    idx,         \* the position of the loop of main in rows
    ok,          \* the count of feeds created
    stdout,      \* the lines printed
    pc,          \* position of main: "start", "loop", "report", "done", "exit", "crashed"
    attempts,    \* history: one record per pass of the loop of main
    index        \* history: the calls of write_opml_from_dir

slugVars == <<text, slug, reslug, spc>>
extractVars == <<soup, base_url, extracted, epc>>
mainVars ==
    <<BASE_URL, args_out, sheet, dir, dir0, rows, idx, ok, stdout, pc, attempts, index>>

(***************************************************************************)
(* Bounds of the model.                                                    *)
(***************************************************************************)
MaxTextLen == 3
MaxNodes == 2
MaxRows == 2

(***************************************************************************)
(* Characters and strings.                                                 *)
(***************************************************************************)
\* Printable ASCII, in code-point order (code point = index + 31); the backtick,
\* which a string literal cannot hold, is written "<backtick>".
Ascii ==
    << " ", "!", "\"", "#", "$", "%", "&", "'", "(", ")", "*", "+", ",", "-", ".", "/",
       "0", "1", "2", "3", "4", "5", "6", "7", "8", "9", ":", ";", "<", "=", ">", "?",
       "@", "A", "B", "C", "D", "E", "F", "G", "H", "I", "J", "K", "L", "M", "N", "O",
       "P", "Q", "R", "S", "T", "U", "V", "W", "X", "Y", "Z", "[", "\\", "]", "^", "_",
       "<backtick>", "a", "b", "c", "d", "e", "f", "g", "h", "i", "j", "k", "l", "m", "n", "o",
       "p", "q", "r", "s", "t", "u", "v", "w", "x", "y", "z", "{", "|", "}", "~" >>

\* Code point of a character (the tab, the only control character used, is 9).
CodePoints ==
    [c \in {Ascii[i] : i \in 1..Len(Ascii)} \cup {"\t"} |->
        IF c = "\t" THEN 9
        ELSE 31 + (CHOOSE i \in 1..Len(Ascii) : Ascii[i] = c)]

Ord(c) == CodePoints[c]

Chr(n) == Ascii[n - 31]

\* str.lower() on one character.
LowerChar(c) == IF Ord(c) >= 65 /\ Ord(c) <= 90 THEN Chr(Ord(c) + 32) ELSE c

\* str.lower()
Lower(s) == [i \in 1..Len(s) |-> LowerChar(s[i])]

\* The characters str.strip() removes (the whitespace used in the model).
Whitespace == {" ", "\t"}

RECURSIVE LStrip(_, _)
LStrip(s, chars) ==
    IF s # <<>> /\ Head(s) \in chars THEN LStrip(Tail(s), chars) ELSE s

RECURSIVE RStrip(_, _)
RStrip(s, chars) ==
    IF s # <<>> /\ s[Len(s)] \in chars
    THEN RStrip(SubSeq(s, 1, Len(s) - 1), chars)
    ELSE s

\* str.strip() / str.strip(chars)
Strip(s, chars) == RStrip(LStrip(s, chars), chars)

\* The character class [a-z0-9] of the regular expression of slugify.
IsLowerAlnum(c) ==
    \/ Ord(c) >= 97 /\ Ord(c) <= 122
    \/ Ord(c) >= 48 /\ Ord(c) <= 57

\* re.sub(r"[^a-z0-9]+", "-", s): scanning from the left, every maximal run of
\* characters outside a-z0-9 is replaced by one hyphen.
RECURSIVE SkipNonAlnum(_)
SkipNonAlnum(s) ==
    IF s # <<>> /\ ~IsLowerAlnum(Head(s)) THEN SkipNonAlnum(Tail(s)) ELSE s

RECURSIVE SubNonAlnum(_)
SubNonAlnum(s) ==
    IF s = <<>> THEN <<>>
    ELSE IF ~IsLowerAlnum(Head(s)) THEN <<"-">> \o SubNonAlnum(SkipNonAlnum(s))
    ELSE <<Head(s)>> \o SubNonAlnum(Tail(s))

\* re.sub(r"-{2,}", "-", s): every maximal run of two or more hyphens is
\* replaced by one hyphen; a single hyphen is not matched and is copied.
RECURSIVE SubHyphens(_)
SubHyphens(s) ==
    IF s = <<>> THEN <<>>
    ELSE IF Len(s) >= 2 /\ s[1] = "-" /\ s[2] = "-"
         THEN <<"-">> \o SubHyphens(LStrip(s, {"-"}))
    ELSE <<Head(s)>> \o SubHyphens(Tail(s))

Feed == <<"f", "e", "e", "d">>

(***************************************************************************)
(* slugify                                                                 *)
(***************************************************************************)
\* slugify without the final .strip("-") of line 34.
slugify_nostrip(t) ==
    LET t1 == Lower(Strip(t, Whitespace))
        t2 == SubNonAlnum(t1)
        t3 == SubHyphens(t2)
    IN  IF t3 # <<>> THEN t3 ELSE Feed

slugify(t) ==
    LET t1 == Lower(Strip(t, Whitespace))         \* text.strip().lower()
        t2 == SubNonAlnum(t1)                     \* re.sub(r"[^a-z0-9]+", "-", text)
        t3 == Strip(SubHyphens(t2), {"-"})        \* re.sub(r"-{2,}", "-", text).strip("-")
    IN  IF t3 # <<>> THEN t3 ELSE Feed            \* text or "feed"

(***************************************************************************)
(* Pages.                                                                  *)
(*                                                                         *)
(* A URL is [origin, path]. The href of a link is absent ("none"), empty,  *)
(* a rooted path ("/p"), an absolute URL, or malformed ("http://[", which  *)
(* urllib's urlsplit rejects). The texts of a page (get_text(" ",          *)
(* strip=True), the title attribute) are short strings; None is Python's   *)
(* None, which is no text of a page.                                       *)
(*                                                                         *)
(* A parsed document is the sequence, in document order, of its blocks:    *)
(*   "vc_h2"   <div class="view-content"><h2> a </h2> p </div>             *)
(*   "article" <article> a p </article>                                    *)
(*   "h1"      <h1> a </h1> p                                              *)
(*   "h2"      <h2> a </h2> p        (or h3)                               *)
(* each with at most one link a and at most one paragraph p.               *)
(***************************************************************************)
None == "<None>"

Truthy(v) == v # None /\ v # ""

EmptyUrl == [origin |-> "", path |-> ""]

ExampleList == [origin |-> "https://example.com", path |-> "/list"]
DoppiozeroList == [origin |-> "https://www.doppiozero.com", path |-> "/rubriche"]

HrefNone  == [kind |-> "none", origin |-> "", path |-> ""]
HrefEmpty == [kind |-> "empty", origin |-> "", path |-> ""]
HrefRootP == [kind |-> "root", origin |-> "", path |-> "/p"]
HrefAbsP  == [kind |-> "abs", origin |-> "https://example.com", path |-> "/p"]
HrefBad   == [kind |-> "bad", origin |-> "", path |-> ""]

\* a.get("href"): falsy when the attribute is absent or empty.
HrefTruthy(h) == h.kind \notin {"none", "empty"}

ValueError == [origin |-> "ValueError", path |-> ""]

\* urllib.parse.urljoin(base, url): the base when url is empty, url itself when
\* it is absolute, the base's origin with url's path when url is a rooted path;
\* ValueError ("Invalid IPv6 URL") when url is malformed.
urljoin(base, url) ==
    CASE url.kind = "empty" -> base
      [] url.kind = "root"  -> [origin |-> base.origin, path |-> url.path]
      [] url.kind = "abs"   -> [origin |-> url.origin, path |-> url.path]
      [] url.kind = "bad"   -> ValueError

NoAnchor == [href |-> HrefNone, text |-> None, title |-> None]

Anchors ==
    { [href |-> HrefNone,  text |-> "T", title |-> None],
      [href |-> HrefEmpty, text |-> "T", title |-> None],
      [href |-> HrefRootP, text |-> "T", title |-> None],
      [href |-> HrefAbsP,  text |-> "U", title |-> None],
      [href |-> HrefRootP, text |-> "",  title |-> "Tt"],
      [href |-> HrefRootP, text |-> "",  title |-> None],
      [href |-> HrefBad,   text |-> "T", title |-> None],
      [href |-> HrefBad,   text |-> "",  title |-> None] }

Blocks ==
    [kind : {"vc_h2", "article", "h1", "h2"}, a : Anchors \cup {NoAnchor}, p : {None, "D"}]

\* tag.find_next("p") from a heading: the first paragraph at or after block k.
RECURSIVE FindNextP(_, _)
FindNextP(doc, k) ==
    IF k > Len(doc) THEN None
    ELSE IF doc[k].p # None THEN doc[k].p
    ELSE FindNextP(doc, k + 1)

\* The result of one pass of a loop body: skipped (continue), raised, or an item.
Skip == [kind |-> "skip"]
Raise == [kind |-> "raise"]
Item(title, link, desc, tier) ==
    [kind |-> "item", title |-> title, link |-> link, desc |-> desc, tier |-> tier]

\* The items a loop appended, given the result of each pass; the loop raises
\* when a pass does.
LoopResult(passes) ==
    IF \E k \in 1..Len(passes) : passes[k].kind = "raise"
    THEN [raised |-> TRUE, items |-> <<>>]
    ELSE [raised |-> FALSE,
          items  |-> SelectSeq(passes, LAMBDA r : r.kind = "item")]

\* soup.select(".view-content h2 a"): the links of the "vc_h2" blocks, each
\* with the paragraph found from its h2.
RECURSIVE SelectViewContentLinks(_, _)
SelectViewContentLinks(doc, k) ==
    IF k > Len(doc) THEN <<>>
    ELSE (IF doc[k].kind = "vc_h2" /\ doc[k].a # NoAnchor
          THEN << [a |-> doc[k].a, p |-> FindNextP(doc, k)] >>
          ELSE <<>>)
         \o SelectViewContentLinks(doc, k + 1)

\* The body of the loop of lines 116-125.
DoppiozeroPass(c, base) ==
    LET href  == c.a.href
        title == c.a.text
    IN  IF ~HrefTruthy(href) \/ ~Truthy(title) THEN Skip
        ELSE LET link == urljoin(base, href)
             IN  IF link = ValueError THEN Raise
                 ELSE Item(title, link, c.p, "site")

\* soup.select("article"): the "article" blocks, each with its first link that
\* has an href attribute (find("a", href=True)) and its first paragraph.
SelectArticles(doc) ==
    SelectSeq(doc, LAMBDA b : b.kind = "article")

\* The body of the loop of lines 129-139.
ArticlePass(art, base) ==
    IF art.a = NoAnchor \/ art.a.href.kind = "none" THEN Skip
    ELSE LET title == IF Truthy(art.a.text) THEN art.a.text ELSE art.a.title
             link  == urljoin(base, art.a.href)
         IN  IF link = ValueError THEN Raise
             ELSE IF ~Truthy(title) \/ link = EmptyUrl THEN Skip
             ELSE Item(title, link, art.p, "article")

\* soup.select("h1 a, h2 a, h3 a, h2, h3"), in document order: an h2 (or h3)
\* is matched itself and then its link; of an h1 only the link is matched.
RECURSIVE SelectHeadings(_, _)
SelectHeadings(doc, k) ==
    IF k > Len(doc) THEN <<>>
    ELSE LET b == doc[k]
             asHeading == [isA |-> FALSE, a |-> b.a, p |-> FindNextP(doc, k)]
             asLink    == [isA |-> TRUE,  a |-> b.a, p |-> FindNextP(doc, k)]
         IN  (CASE b.kind \in {"vc_h2", "h2"} ->
                     <<asHeading>> \o (IF b.a # NoAnchor THEN <<asLink>> ELSE <<>>)
                [] b.kind = "h1" -> IF b.a # NoAnchor THEN <<asLink>> ELSE <<>>
                [] OTHER -> <<>>)
             \o SelectHeadings(doc, k + 1)

\* The body of the loop of lines 143-153.
HeadingPass(h, base) ==
    LET found == IF h.isA THEN TRUE
                 ELSE h.a # NoAnchor /\ h.a.href.kind # "none"
    IN  IF ~found \/ ~HrefTruthy(h.a.href) THEN Skip
        ELSE LET title == IF Truthy(h.a.text) THEN h.a.text ELSE h.a.title
                 link  == urljoin(base, h.a.href)
             IN  IF link = ValueError THEN Raise
                 ELSE IF ~Truthy(title) \/ link = EmptyUrl THEN Skip
                 ELSE Item(title, link, h.p, "heading")

\* "doppiozero.com" in base_url
MentionsDoppiozero(base) == base.origin = "https://www.doppiozero.com"

NoItems == [raised |-> FALSE, items |-> <<>>]

\* Lines 112-125: the site-specific tier.
DoppiozeroTier(doc, base) ==
    IF MentionsDoppiozero(base)
    THEN LET cs == SelectViewContentLinks(doc, 1)
         IN  LoopResult([k \in 1..Len(cs) |-> DoppiozeroPass(cs[k], base)])
    ELSE NoItems

ArticleLoop(doc, base) ==
    LET cs == SelectArticles(doc)
    IN  LoopResult([k \in 1..Len(cs) |-> ArticlePass(cs[k], base)])

HeadingLoop(doc, base) ==
    LET cs == SelectHeadings(doc, 1)
    IN  LoopResult([k \in 1..Len(cs) |-> HeadingPass(cs[k], base)])

\* The article loop run whatever the earlier tier found (the guard dropped).
ArticleTier_unguarded(before, doc, base) ==
    IF before.raised THEN before
    ELSE LET t == ArticleLoop(doc, base)
         IN  [raised |-> t.raised, items |-> before.items \o t.items]

\* Lines 127-139: the generic <article> tier, run if not items.
ArticleTier(before, doc, base) ==
    IF before.raised THEN before
    ELSE IF before.items = <<>> THEN ArticleLoop(doc, base)
    ELSE before

\* Lines 141-153: the heading fallback, run if not items.
HeadingTier(before, doc, base) ==
    IF before.raised THEN before
    ELSE IF before.items = <<>> THEN HeadingLoop(doc, base)
    ELSE before

\* A dedup that keeps the last item of each link instead of the first.
RECURSIVE Dedup_keeplast(_, _)
Dedup_keeplast(items, seen) ==
    IF items = <<>> THEN <<>>
    ELSE IF \E k \in 2..Len(items) : items[k].link = Head(items).link
         THEN Dedup_keeplast(Tail(items), seen)
    ELSE <<Head(items)>> \o Dedup_keeplast(Tail(items), seen)

\* Lines 155-161: the loop over items with the set seen of links.
RECURSIVE Dedup(_, _)
Dedup(items, seen) ==
    IF items = <<>> THEN <<>>
    ELSE IF Head(items).link \in seen THEN Dedup(Tail(items), seen)
    ELSE <<Head(items)>> \o Dedup(Tail(items), seen \cup {Head(items).link})

\* The candidate list of extract_items_generic before the dedup (items at line 155).
Candidates(doc, base) ==
    HeadingTier(ArticleTier(DoppiozeroTier(doc, base), doc, base), doc, base)

extract_items_generic(doc, base) ==
    LET c == Candidates(doc, base)
    IN  IF c.raised THEN [raised |-> TRUE, out |-> <<>>]
        ELSE [raised |-> FALSE, out |-> Dedup(c.items, {})]

(***************************************************************************)
(* build_rss: the feed document of a row. The build time, the same for the *)
(* feed and all its items, is left out.                                    *)
(***************************************************************************)
RssItem(it) ==
    [title |-> it.title, link |-> it.link,
     description |-> IF Truthy(it.desc) THEN it.desc ELSE "",   \* it.get("desc") or ""
     guid |-> it.link]

build_rss(name, url, items) ==
    [kind  |-> "rss",
     title |-> name \o <<" ", "(", "c", "u", "s", "t", "o", "m", ")">>,
     link  |-> url,
     items |-> [k \in 1..Len(items) |-> RssItem(items[k])]]

\* What open(out_path, "w") leaves when the write that follows it fails.
Truncated == [kind |-> "truncated", title |-> <<>>, link |-> EmptyUrl, items |-> <<>>]

(***************************************************************************)
(* File names and the OPML index.                                          *)
(***************************************************************************)
DotXml == <<".", "x", "m", "l">>
FeedsOpml == <<"f", "e", "e", "d", "s", ".", "o", "p", "m", "l">>

\* str.endswith
EndsWith(s, suffix) ==
    /\ Len(s) >= Len(suffix)
    /\ SubSeq(s, Len(s) - Len(suffix) + 1, Len(s)) = suffix

\* The order of Python's str: by code point, a proper prefix first.
RECURSIVE StrLess(_, _)
StrLess(a, b) ==
    IF b = <<>> THEN FALSE
    ELSE IF a = <<>> THEN TRUE
    ELSE IF Head(a) # Head(b) THEN Ord(Head(a)) < Ord(Head(b))
    ELSE StrLess(Tail(a), Tail(b))

\* sorted(names)
RECURSIVE Sorted(_)
Sorted(names) ==
    IF names = {} THEN <<>>
    ELSE LET least == CHOOSE n \in names : \A m \in names \ {n} : StrLess(n, m)
         IN  <<least>> \o Sorted(names \ {least})

\* os.path.splitext(f)[0] of a file name: the name up to its last dot, the
\* whole name when only dots precede that dot.
SplitextRoot(f) ==
    LET dots == {k \in 1..Len(f) : f[k] = "."}
    IN  IF dots = {} THEN f
        ELSE LET last == CHOOSE k \in dots : \A j \in dots : j <= k
             IN  IF \A j \in 1..(last - 1) : f[j] = "." THEN f
                 ELSE SubSeq(f, 1, last - 1)

\* html.escape of one character, quote=True
EscapeChar(c) ==
    CASE c = "&"  -> <<"&", "a", "m", "p", ";">>
      [] c = "<"  -> <<"&", "l", "t", ";">>
      [] c = ">"  -> <<"&", "g", "t", ";">>
      [] c = "\"" -> <<"&", "q", "u", "o", "t", ";">>
      [] c = "'"  -> <<"&", "#", "x", "2", "7", ";">>
      [] OTHER    -> <<c>>

\* html.escape(s): every character replaced by its escape (computed by halves).
RECURSIVE html_escape(_)
html_escape(s) ==
    IF s = <<>> THEN <<>>
    ELSE IF Len(s) = 1 THEN EscapeChar(s[1])
    ELSE LET mid == Len(s) \div 2
         IN  html_escape(SubSeq(s, 1, mid)) \o html_escape(SubSeq(s, mid + 1, Len(s)))

Cwd == <<"/", "w">>

\* os.path.abspath(os.path.join(dir_path, f)), for a dir_path without "." or
\* ".." components and without a trailing slash.
AbsJoin(dir_path, f) ==
    LET joined == dir_path \o <<"/">> \o f
    IN  IF Head(dir_path) = "/" THEN joined ELSE Cwd \o <<"/">> \o joined

FileScheme == <<"f", "i", "l", "e", ":", "/", "/">>

\* Lines 196-200 with the rstrip("/") left out.
XmlUrl_norstrip(dir_path, f, base) ==
    IF base # <<>> THEN base \o <<"/">> \o f
    ELSE FileScheme \o AbsJoin(dir_path, f)

\* Lines 196-200: the URL of one feed file; base is "" for None.
XmlUrl(dir_path, f, base) ==
    IF base # <<>> THEN RStrip(base, {"/"}) \o <<"/">> \o f
    ELSE FileScheme \o AbsJoin(dir_path, f)

\* Line 189: the .xml files of the directory listing, sorted.
FeedFiles(listing) ==
    SelectSeq(Sorted(listing), LAMBDA f : EndsWith(Lower(f), DotXml))

\* Lines 192-209: the OPML document, one outline per file.
Opml(files, dir_path, base) ==
    [kind  |-> "opml",
     title |-> <<>>,
     link  |-> EmptyUrl,
     items |-> [k \in 1..Len(files) |->
                  [text   |-> html_escape(SplitextRoot(files[k])),
                   xmlUrl |-> html_escape(XmlUrl(dir_path, files[k], base))]]]

\* write_opml_from_dir without the early return of lines 190-191.
write_opml_from_dir_noreturn(d, dir_path, out_name, base, io) ==
    LET files == FeedFiles(DOMAIN d)
    IN  IF io = "error" THEN [raised |-> TRUE, returned |-> FALSE, dir |-> d]
        ELSE [raised   |-> FALSE,
              returned |-> TRUE,
              dir      |-> [f \in DOMAIN d \cup {out_name} |->
                              IF f = out_name THEN Opml(files, dir_path, base)
                              ELSE d[f]]]

\* write_opml_from_dir on the directory d; io is whether open(out_path, "w")
\* succeeds. The result: whether it raised, what it returned, the directory.
write_opml_from_dir(d, dir_path, out_name, base, io) ==
    LET files == FeedFiles(DOMAIN d)
    IN  IF files = <<>> THEN [raised |-> FALSE, returned |-> FALSE, dir |-> d]
        ELSE IF io = "error" THEN [raised |-> TRUE, returned |-> FALSE, dir |-> d]
        ELSE [raised   |-> FALSE,
              returned |-> TRUE,
              dir      |-> [f \in DOMAIN d \cup {out_name} |->
                              IF f = out_name THEN Opml(files, dir_path, base)
                              ELSE d[f]]]

(***************************************************************************)
(* read_excel_rows. A worksheet is [headers, data]: headers is the first   *)
(* row, data the rows after it, each a sequence of cells. A text cell is a *)
(* string; the empty string stands for an empty cell (None). The cell of a *)
(* URL is a URL, EmptyUrl for an empty cell.                               *)
(***************************************************************************)
NameIs == <<"n", "a", "m", "e">>
UrlIs == <<"u", "r", "l">>

\* headers.index(h) on the stripped, lowercased headers; 0 for ValueError.
HeaderIndex(headers, h) ==
    LET hs == [k \in 1..Len(headers) |-> Lower(Strip(headers[k], Whitespace))]
    IN  IF \E k \in 1..Len(hs) : hs[k] = h
        THEN CHOOSE k \in 1..Len(hs) : hs[k] = h /\ \A j \in 1..(k - 1) : hs[j] # h
        ELSE 0

\* The (name, url) of a data row: each cell stripped, "" when empty.
RowOf(row, name_idx, url_idx) ==
    [name |-> Strip(row[name_idx], Whitespace), url |-> row[url_idx]]

\* Line 230: if name and url
ValidRow(r) == r.name # <<>> /\ r.url # EmptyUrl

\* read_excel_rows: [exit |-> TRUE] for SystemExit, else the valid rows.
read_excel_rows(ws) ==
    LET name_idx == HeaderIndex(ws.headers, NameIs)
        url_idx  == HeaderIndex(ws.headers, UrlIs)
    IN  IF name_idx = 0 \/ url_idx = 0 THEN [exit |-> TRUE, rows |-> <<>>]
        ELSE LET all == [k \in 1..Len(ws.data) |-> RowOf(ws.data[k], name_idx, url_idx)]
                 valid == SelectSeq(all, ValidRow)
             IN  IF valid = <<>> THEN [exit |-> TRUE, rows |-> <<>>]
                 ELSE [exit |-> FALSE, rows |-> valid]

(***************************************************************************)
(* main                                                                    *)
(***************************************************************************)
\* A printed line: its kind and a number (the row for "row", the number of
\* items for "written", the count of feeds for "done", 0 otherwise).
Line(kind, arg) == [kind |-> kind, arg |-> arg]

\* Lines 252-253 with an extraction of zero items raised as an error.
AfterExtract_zeroiserror(items) ==
    [warn |-> FALSE, raised |-> items = <<>>]

\* Lines 252-253: zero items print a warning and the row goes on.
AfterExtract(items) ==
    [warn |-> items = <<>>, raised |-> FALSE]

\* The try block of lines 250-260 for one row on the directory d: fetch is what
\* fetch_html did ([ok, soup]), io what the write of the feed file did ("ok",
\* "open_error" when open raises, "write_error" when f.write raises). The
\* result: whether an exception reached the handler, the directory, the lines
\* printed, whether ok was incremented, and for the history the items and the
\* file name.
TryRow(name, url, fetch, io, d) ==
    LET failed(log, d2, n) ==
            [raised |-> TRUE, dir |-> d2, log |-> log, counted |-> FALSE,
             extracted |-> n >= 0, nitems |-> n]
    IN  IF ~fetch.ok THEN failed(<<>>, d, -1)
        ELSE LET r == extract_items_generic(fetch.soup, url)
             IN  IF r.raised THEN failed(<<>>, d, -1)
                 ELSE LET items == r.out
                          after == AfterExtract(items)
                          log   == IF after.warn THEN <<Line("warn_no_items", 0)>> ELSE <<>>
                          xml   == build_rss(name, url, items)
                          fname == slugify(name) \o DotXml
                          put(c) == [f \in DOMAIN d \cup {fname} |->
                                       IF f = fname THEN c ELSE d[f]]
                      IN  IF after.raised THEN failed(log, d, Len(items))
                          ELSE IF io = "open_error" THEN failed(log, d, Len(items))
                          ELSE IF io = "write_error"
                               THEN failed(log, put(Truncated), Len(items))
                          ELSE [raised |-> FALSE, dir |-> put(xml),
                                log |-> log \o <<Line("written", Len(items))>>,
                                counted |-> TRUE,
                                extracted |-> TRUE, nitems |-> Len(items)]

\* A loop that stops at the first row that raises.
NextRow_stopOnError(i, n, raised) == IF raised THEN n + 1 ELSE i + 1

\* Lines 247, 261-262: the handler prints the error and the loop goes on to
\* the next of the n rows.
NextRow(i, n, raised) == i + 1

\* An index built only when a feed was created in this run.
IndexDue_onlyWhenFeeds(i, n, created) == i > n /\ created > 0

\* Line 264: the index is built when the loop over the n rows has ended.
IndexDue(i, n, created) == i > n

\* Line 266: base = BASE_URL if BASE_URL.strip() else None ("" stands for None).
OpmlBase(configured) ==
    IF Strip(configured, Whitespace) # <<>> THEN configured ELSE <<>>

\* The pages fetch_html returns in a run, and its failure.
ArticleP ==
    [kind |-> "article",
     a |-> [href |-> HrefRootP, text |-> "T", title |-> None], p |-> "D"]
ArticleBad ==
    [kind |-> "article",
     a |-> [href |-> HrefBad, text |-> "T", title |-> None], p |-> None]

Fetches ==
    { [ok |-> FALSE, soup |-> <<>>],
      [ok |-> TRUE, soup |-> <<>>],
      [ok |-> TRUE, soup |-> <<ArticleP>>],
      [ok |-> TRUE, soup |-> <<ArticleBad>>] }

WriteOutcomes == {"ok", "open_error", "write_error"}

\* Lines 243-244: makedirs, read_excel_rows; SystemExit ends the run.
ReadExcel ==
    /\ pc = "start"
    /\ LET r == read_excel_rows(sheet)
       IN  /\ rows' = r.rows
           /\ pc' = IF r.exit THEN "exit" ELSE "loop"
    /\ idx' = 1
    /\ ok' = 0
    /\ UNCHANGED <<BASE_URL, args_out, sheet, dir, dir0, stdout, attempts, index>>
    /\ UNCHANGED <<slugVars, extractVars>>

\* Lines 247-262: one pass of the loop, for the row at idx.
ProcessRow ==
    /\ pc = "loop"
    /\ idx <= Len(rows)
    /\ \E fetch \in Fetches, io \in WriteOutcomes :
         LET row == rows[idx]
             t   == TryRow(row.name, row.url, fetch, io, dir)
             log == <<Line("row", idx)>> \o t.log
                    \o (IF t.raised THEN <<Line("error", 0)>> ELSE <<>>)
             fname == slugify(row.name) \o DotXml
         IN  /\ dir' = t.dir
             /\ ok' = IF t.counted THEN ok + 1 ELSE ok
             /\ stdout' = stdout \o log
             /\ idx' = NextRow(idx, Len(rows), t.raised)
             /\ attempts' = Append(attempts,
                    [row |-> idx, fetched |-> fetch.ok, extracted |-> t.extracted,
                     nitems |-> t.nitems,
                     io |-> IF t.extracted THEN io ELSE "none",
                     raised |-> t.raised, counted |-> t.counted,
                     fname |-> fname,
                     file |-> IF fname \in DOMAIN t.dir THEN t.dir[fname] ELSE Truncated,
                     log |-> log])
    /\ UNCHANGED <<BASE_URL, args_out, sheet, dir0, rows, pc, index>>
    /\ UNCHANGED <<slugVars, extractVars>>

\* Lines 264-274: the index is built and its outcome printed; an exception of
\* write_opml_from_dir is caught by nothing and ends the run.
BuildIndex ==
    /\ pc = "loop"
    /\ IndexDue(idx, Len(rows), ok)
    /\ \E io \in {"ok", "error"} :
         LET base == OpmlBase(BASE_URL)
             w    == write_opml_from_dir(dir, args_out, FeedsOpml, base, io)
         IN  /\ dir' = w.dir
             /\ pc' = IF w.raised THEN "crashed" ELSE "report"
             /\ stdout' = stdout \o
                    (IF w.raised THEN <<>>
                     ELSE IF w.returned
                          THEN <<Line("opml_created", 0),
                                 Line(IF base # <<>> THEN "opml_remote" ELSE "opml_local", 0)>>
                     ELSE <<Line("warn_no_xml", 0)>>)
             /\ index' = Append(index,
                    [before |-> dir, raised |-> w.raised, returned |-> w.returned,
                     base |-> base, attempted |-> Len(attempts)])
    /\ UNCHANGED <<BASE_URL, args_out, sheet, dir0, rows, idx, ok, attempts>>
    /\ UNCHANGED <<slugVars, extractVars>>

\* Line 276: the count of feeds created is printed.
Report ==
    /\ pc = "report"
    /\ stdout' = Append(stdout, Line("done", ok))
    /\ pc' = "done"
    /\ UNCHANGED <<BASE_URL, args_out, sheet, dir, dir0, rows, idx, ok, attempts, index>>
    /\ UNCHANGED <<slugVars, extractVars>>

(***************************************************************************)
(* The runs of main: the configuration, the output directory left by       *)
(* earlier runs and the worksheet are drawn from small sets.               *)
(***************************************************************************)
RawBase ==
    << "h", "t", "t", "p", "s", ":", "/", "/", "r", "a", "w", ".", "g", "i", "t", "h",
       "u", "b", "u", "s", "e", "r", "c", "o", "n", "t", "e", "n", "t", ".", "c", "o",
       "m", "/", "t", "r", "a", "n", "k", "1", "9", "5", "5", "/", "m", "y", "-", "f",
       "e", "e", "d", "s", "/", "r", "e", "f", "s", "/", "h", "e", "a", "d", "s", "/",
       "m", "a", "i", "n", "/", "o", "u", "t", "p", "u", "t", "_", "f", "e", "e", "d",
       "s" >>

OldFeed == [kind |-> "rss", title |-> <<"o", "l", "d">>, link |-> ExampleList, items |-> <<>>]
OldOpml == [kind |-> "opml", title |-> <<"o", "l", "d">>, link |-> EmptyUrl, items |-> <<>>]
OtherFile == [kind |-> "other", title |-> <<>>, link |-> EmptyUrl, items |-> <<>>]

EmptyDir == [f \in {} |-> OtherFile]
OnlyOldOpml == [f \in {FeedsOpml} |-> OldOpml]
OldFeeds ==
    [f \in {<<"Z", ".", "X", "M", "L">>, <<"R", "&", "D", ".", "x", "m", "l">>,
            <<"n", ".", "t", "x", "t">>, <<".", "x", "m", "l">>} |->
        IF EndsWith(Lower(f), DotXml) THEN OldFeed ELSE OtherFile]
OldRun ==
    [f \in {<<"a", "-", "b", ".", "x", "m", "l">>, FeedsOpml} |->
        IF f = FeedsOpml THEN OldOpml ELSE OldFeed]

RelOut == <<"o", "u", "t">>
AbsOut == <<"/", "s", "r", "v">>

\* A shorter base URL, as a user may configure it.
ShortBase == <<"h", "t", "t", "p", ":", "/", "/", "h", "/", "f">>

\* The header rows: as documented, with the columns swapped and untidy, and
\* without the name column.
PlainHeaders == [cells |-> <<NameIs, UrlIs>>, nameFirst |-> TRUE]
SwappedHeaders ==
    [cells |-> <<<<" ", "U", "R", "L">>, <<"N", "a", "m", "e", " ">>>>, nameFirst |-> FALSE]
WrongHeaders == [cells |-> <<<<"t", "i", "t", "l", "e">>, UrlIs>>, nameFirst |-> TRUE]

Environments ==
    { [base |-> RawBase,              out |-> RelOut, dir |-> EmptyDir,    h |-> PlainHeaders],
      [base |-> ShortBase,            out |-> RelOut, dir |-> OldFeeds,    h |-> PlainHeaders],
      [base |-> ShortBase \o <<"/">>, out |-> AbsOut, dir |-> OldRun,      h |-> SwappedHeaders],
      [base |-> <<>>,                 out |-> RelOut, dir |-> OldFeeds,    h |-> PlainHeaders],
      [base |-> <<>>,                 out |-> AbsOut, dir |-> EmptyDir,    h |-> SwappedHeaders],
      [base |-> <<" ">>,              out |-> RelOut, dir |-> OnlyOldOpml, h |-> PlainHeaders],
      [base |-> RawBase,              out |-> RelOut, dir |-> EmptyDir,    h |-> WrongHeaders] }

\* The data rows as (name cell, url cell): three valid rows, two of them with
\* names of the same slug, a row without a name and a row without a url.
DataRows ==
    { << <<"A", " ", "b">>, ExampleList >>,
      << <<"a", "-", "b">>, ExampleList >>,
      << <<"Z", " ">>,      ExampleList >>,
      << <<>>,              ExampleList >>,
      << <<"A", " ", "b">>, EmptyUrl >> }

\* The worksheet with header row h and the data rows d, the cells of each row
\* in the order of the headers.
Sheet(h, d) ==
    [headers |-> h.cells,
     data    |-> [k \in 1..Len(d) |->
                    IF h.nameFirst THEN <<d[k][1], d[k][2]>> ELSE <<d[k][2], d[k][1]>>]]

MainIdle ==
    /\ BASE_URL = RawBase
    /\ args_out = RelOut
    /\ sheet = [headers |-> <<>>, data |-> <<>>]
    /\ dir = EmptyDir
    /\ dir0 = EmptyDir
    /\ rows = <<>>
    /\ idx = 1
    /\ ok = 0
    /\ stdout = <<>>
    /\ pc = "idle"
    /\ attempts = <<>>
    /\ index = <<>>

MainInit ==
    /\ \E e \in Environments, d \in UNION {[1..n -> DataRows] : n \in 0..MaxRows} :
         /\ BASE_URL = e.base
         /\ args_out = e.out
         /\ dir = e.dir
         /\ dir0 = e.dir
         /\ sheet = Sheet(e.h, d)
    /\ rows = <<>>
    /\ idx = 1
    /\ ok = 0
    /\ stdout = <<>>
    /\ pc = "start"
    /\ attempts = <<>>
    /\ index = <<>>

(***************************************************************************)
(* Harness of slugify: the argument is drawn from the strings of at most   *)
(* MaxTextLen characters over SlugAlphabet and from the example of the     *)
(* documentation; slugify is applied to it, and then to its own result.    *)
(***************************************************************************)
SlugAlphabet == {"A", "b", "1", "-", " ", "!"}

StringsUpTo(alphabet, n) == UNION {[1..k -> alphabet] : k \in 0..n}

IlSole24Ore ==
    <<"I", "l", " ", "S", "o", "l", "e", " ", "2", "4", " ", "O", "r", "e", "!">>

SlugInputs == StringsUpTo(SlugAlphabet, MaxTextLen) \cup {IlSole24Ore}

SlugIdle ==
    /\ text = <<>>
    /\ slug = <<>>
    /\ reslug = <<>>
    /\ spc = "idle"

SlugInit ==
    /\ text \in SlugInputs
    /\ slug = <<>>
    /\ reslug = <<>>
    /\ spc = "start"

Slugify ==
    /\ spc = "start"
    /\ slug' = slugify(text)
    /\ spc' = "slugged"
    /\ UNCHANGED <<text, reslug>>
    /\ UNCHANGED <<extractVars, mainVars>>

SlugifyAgain ==
    /\ spc = "slugged"
    /\ reslug' = slugify(slug)
    /\ spc' = "done"
    /\ UNCHANGED <<text, slug>>
    /\ UNCHANGED <<extractVars, mainVars>>

(***************************************************************************)
(* Harness of extract_items_generic: the document is drawn from the        *)
(* sequences of at most MaxNodes blocks and the base URL from two pages,   *)
(* one of them of doppiozero.com; extract_items_generic is applied once.   *)
(***************************************************************************)
Documents == UNION {[1..k -> Blocks] : k \in 0..MaxNodes}

BaseUrls == {ExampleList, DoppiozeroList}

NotExtracted == [raised |-> FALSE, out |-> <<>>]

ExtractIdle ==
    /\ soup = <<>>
    /\ base_url = EmptyUrl
    /\ extracted = NotExtracted
    /\ epc = "idle"

ExtractInit ==
    /\ soup \in Documents
    /\ base_url \in BaseUrls
    /\ extracted = NotExtracted
    /\ epc = "start"

Extract ==
    /\ epc = "start"
    /\ extracted' = extract_items_generic(soup, base_url)
    /\ epc' = "done"
    /\ UNCHANGED <<soup, base_url>>
    /\ UNCHANGED <<slugVars, mainVars>>

vars == <<slugVars, extractVars, mainVars>>

\* The runs of main.
Init == MainInit /\ SlugIdle /\ ExtractIdle

Next == ReadExcel \/ ProcessRow \/ BuildIndex \/ Report

Spec == Init /\ [][Next]_vars

\* slugify on its own.
SlugNext == Slugify \/ SlugifyAgain

InitSlug == SlugInit /\ ExtractIdle /\ MainIdle

SpecSlug == InitSlug /\ [][SlugNext]_vars

\* extract_items_generic on its own.
ExtractNext == Extract

InitExtract == ExtractInit /\ SlugIdle /\ MainIdle

SpecExtract == InitExtract /\ [][ExtractNext]_vars

(***************************************************************************)
(* C1, C2, C3, C4, C5, C9: the runs of main                                *)
(***************************************************************************)
Ended == pc \in {"report", "done", "crashed"}

\* C1: each valid row is attempted exactly once, in the order of the
\* spreadsheet, whatever the outcome of each row: the k-th pass of the loop is
\* for row k, a pass that raised is followed by the pass for the next row, and
\* when the loop has ended every row has had its one pass.
C1_EachRowOnceInOrder ==
    /\ \A k \in 1..Len(attempts) : attempts[k].row = k
    /\ Len(attempts) <= Len(rows)
    /\ pc = "loop" => idx = Len(attempts) + 1
    /\ Ended => Len(attempts) = Len(rows)
    /\ \A k \in 1..Len(attempts) :
           attempts[k].raised <=> attempts[k].log[Len(attempts[k].log)].kind = "error"

\* The first of two rows failed while its file was written, the second succeeded.
C1_Witness ==
    /\ pc = "done"
    /\ Len(attempts) = 2
    /\ attempts[1].raised /\ attempts[1].io = "write_error"
    /\ attempts[2].counted

XmlNames(d) == {f \in DOMAIN d : EndsWith(Lower(f), DotXml)}

\* C2: in a run that got past the reading of the spreadsheet,
\* write_opml_from_dir is called exactly once, when every row has been
\* attempted and whatever the count of created feeds; no feed file is written
\* after the call.
C2_IndexOnceAfterAllRows ==
    /\ Len(index) <= 1
    /\ Ended <=> Len(index) = 1
    /\ (pc = "loop" /\ Len(attempts) = Len(rows)) => IndexDue(idx, Len(rows), ok)
    /\ index # <<>> =>
         /\ index[1].attempted = Len(rows)
         /\ Len(attempts) = Len(rows)
         /\ DOMAIN dir \ {FeedsOpml} = DOMAIN index[1].before \ {FeedsOpml}
         /\ \A f \in DOMAIN dir \ {FeedsOpml} : dir[f] = index[1].before[f]

\* Both rows of a run failed and the index was built all the same.
C2_Witness ==
    /\ pc = "done"
    /\ Len(rows) = 2
    /\ ok = 0
    /\ Len(index) = 1

\* C3: for valid rows with pairwise distinct names and an output directory that
\* was empty, after the run the number of .xml files equals the count of
\* created feeds, and the feed of each successful row is in its file.
C3_OneFilePerCreatedFeed ==
    ( /\ pc = "done"
      /\ DOMAIN dir0 = {}
      /\ \A j, k \in 1..Len(rows) : rows[j].name = rows[k].name => j = k )
    => /\ Cardinality(XmlNames(dir)) = ok
       /\ \A k \in 1..Len(attempts) :
              attempts[k].counted =>
                  /\ attempts[k].fname \in DOMAIN dir
                  /\ attempts[k].fname = slugify(rows[k].name) \o DotXml
                  /\ dir[attempts[k].fname] = attempts[k].file

\* What an XML reader makes of an attribute value: the text up to the first
\* "&", the character of the entity that starts there, and the rest likewise.
RECURSIVE XmlUnescape(_)
XmlUnescape(s) ==
    LET amps == {k \in 1..Len(s) : s[k] = "&"}
    IN  IF amps = {} THEN s
        ELSE LET at == CHOOSE k \in amps : \A j \in amps : k <= j
                 semi == CHOOSE k \in (at + 1)..(Len(s) + 1) :
                             /\ k = Len(s) + 1 \/ s[k] = ";"
                             /\ \A j \in (at + 1)..(k - 1) : s[j] # ";"
                 name == SubSeq(s, at + 1, semi - 1)
                 char == CASE name = <<"a", "m", "p">> -> "&"
                           [] name = <<"l", "t">> -> "<"
                           [] name = <<"g", "t">> -> ">"
                           [] name = <<"q", "u", "o", "t">> -> "\""
                           [] name = <<"#", "x", "2", "7">> -> "'"
                           [] OTHER -> "?"
             IN  SubSeq(s, 1, at - 1) \o <<char>> \o XmlUnescape(SubSeq(s, semi + 1, Len(s)))

\* The absolute path of file f of the output directory.
AbsolutePath(f) ==
    (IF args_out[1] = "/" THEN args_out ELSE Cwd \o <<"/">> \o args_out) \o <<"/">> \o f

\* The place of f among the names fs in the order of strings.
Rank(f, fs) == 1 + Cardinality({g \in fs : StrLess(g, f)})

\* The outlines of the index are, in the order of the file names, the .xml
\* files (whatever the case of the extension) that the call c found in the
\* directory, each with the URL UrlOf gives it.
IndexLists(c, UrlOf(_, _)) ==
    LET fs      == XmlNames(c.before)
        entries == dir[FeedsOpml].items
    IN  /\ dir[FeedsOpml].kind = "opml"
        /\ Len(entries) = Cardinality(fs)
        /\ FeedsOpml \notin fs
        /\ \A f \in fs : XmlUnescape(entries[Rank(f, fs)].xmlUrl) = UrlOf(c.base, f)

StatedUrl(base, f) ==
    IF base # <<>> THEN base \o <<"/">> \o f
    ELSE FileScheme \o AbsolutePath(f)

AmendedUrl(base, f) ==
    IF base # <<>>
    THEN LET cut == CHOOSE n \in 0..Len(base) :
                        /\ \A k \in (n + 1)..Len(base) : base[k] = "/"
                        /\ n > 0 => base[n] # "/"
         IN  SubSeq(base, 1, cut) \o <<"/">> \o f
    ELSE FileScheme \o AbsolutePath(f)

\* C4 as stated: whenever write_opml_from_dir succeeds, the OPML has exactly
\* one outline for every file of the directory whose name ends in .xml
\* (case-insensitively), written in this run or there before, and none for
\* any other file; the outlines are in the order of the file names; xmlUrl is
\* base_url + "/" + filename with a base URL, a file:// URL of the absolute
\* path without.
C4_AsStated ==
    \A k \in 1..Len(index) : index[k].returned => IndexLists(index[k], StatedUrl)

\* C4 as amended: the same, with xmlUrl the base URL without its trailing
\* slashes, then "/" and the file name.
C4_IndexListsEveryFeedFile ==
    \A k \in 1..Len(index) : index[k].returned => IndexLists(index[k], AmendedUrl)

\* The index of a run with a base URL ending in a slash lists a file of an
\* earlier run and a file this run wrote, next to an older feeds.opml.
C4_Witness ==
    /\ pc = "done"
    /\ index[1].returned
    /\ EndsWith(BASE_URL, <<"/">>)
    /\ XmlNames(dir0) # {}
    /\ FeedsOpml \in DOMAIN dir0
    /\ XmlNames(dir) \ XmlNames(dir0) # {}
    /\ Len(dir[FeedsOpml].items) = 2

KindsOf(lines) == {lines[k].kind : k \in 1..Len(lines)}

\* C5: when the directory holds no .xml file as the index is built,
\* write_opml_from_dir returns false and leaves the directory, feeds.opml
\* included, as it was; main prints a warning, not the creation of the OPML,
\* and ends by printing the count of created feeds.
C5_NoFeedsNoIndex ==
    \A k \in 1..Len(index) :
        XmlNames(index[k].before) = {} =>
            /\ ~index[k].returned
            /\ ~index[k].raised
            /\ dir = index[k].before
            /\ pc \in {"report", "done"}
            /\ "warn_no_xml" \in KindsOf(stdout)
            /\ "opml_created" \notin KindsOf(stdout)
            /\ pc = "report" => ENABLED Report
            /\ pc = "done" => stdout[Len(stdout)] = Line("done", ok)

\* Every row of a run failed; the feeds.opml of an earlier run is untouched.
C5_Witness ==
    /\ pc = "done"
    /\ Len(attempts) >= 1
    /\ XmlNames(dir) = {}
    /\ FeedsOpml \in DOMAIN dir
    /\ dir[FeedsOpml] = OldOpml

Counted == {k \in 1..Len(attempts) : attempts[k].counted}

\* C9: a row whose page was fetched and whose extraction returned no item is
\* no failure: the warning is printed, and the row then fares as a row with
\* items does: when the write of its file succeeds the (empty) feed is in the
\* file, the row is counted in the count of created feeds and no error is
\* printed; only a failed write makes it fail.
C9_EmptyFeedStillWritten ==
    /\ ok = Cardinality(Counted)
    /\ pc = "done" => stdout[Len(stdout)].arg = Cardinality(Counted)
    /\ \A k \in 1..Len(attempts) :
         LET a == attempts[k]
         IN  a.extracted =>
               /\ (a.nitems = 0) <=> ("warn_no_items" \in KindsOf(a.log))
               /\ a.counted <=> a.io = "ok"
               /\ a.raised <=> a.io # "ok"
               /\ a.io = "ok" =>
                    /\ a.file.kind = "rss"
                    /\ Len(a.file.items) = a.nitems
                    /\ a.fname = slugify(rows[k].name) \o DotXml
                    /\ "written" \in KindsOf(a.log)
                    /\ "error" \notin KindsOf(a.log)

\* A row without items and a row with an item were both counted.
C9_Witness ==
    /\ pc = "done"
    /\ ok = 2
    /\ \E j, k \in 1..Len(attempts) :
         /\ attempts[j].counted /\ attempts[j].nitems = 0
         /\ attempts[j].file.items = <<>>
         /\ attempts[k].counted /\ attempts[k].nitems > 0

(***************************************************************************)
(* C6, C7, C8                                                              *)
(***************************************************************************)
Returned == epc = "done" /\ ~extracted.raised

SiteYield == DoppiozeroTier(soup, base_url).items
ArticleYield == ArticleLoop(soup, base_url).items
HeadingYield == HeadingLoop(soup, base_url).items

TiersOf(items) == {items[k].tier : k \in 1..Len(items)}

\* C6: the three tiers are applied in the order site-specific, <article>,
\* heading, and a tier is attempted only if all earlier tiers produced no item:
\* when the site-specific tier yields an item, every returned item comes from
\* it; otherwise, when the article tier yields an item, every returned item
\* comes from it; only otherwise do the items come from the heading tier. The
\* descriptions of a tier's items play no part.
C6_CascadeOrder ==
    Returned =>
        /\ SiteYield # <<>> => TiersOf(extracted.out) = {"site"}
        /\ ArticleYield # <<>> => "heading" \notin TiersOf(extracted.out)
        /\ SiteYield = <<>> /\ ArticleYield # <<>> =>
               TiersOf(extracted.out) = {"article"}
        /\ "heading" \in TiersOf(extracted.out) =>
               SiteYield = <<>> /\ ArticleYield = <<>>
        /\ Cardinality(TiersOf(extracted.out)) <= 1

\* The site-specific tier yielded items without any description while the
\* document also holds an article the generic tier would yield.
C6_Witness ==
    /\ Returned
    /\ SiteYield # <<>>
    /\ \A k \in 1..Len(SiteYield) : SiteYield[k].desc = None
    /\ ArticleYield # <<>>
    /\ extracted.out # <<>>

\* The index of the first candidate with link l.
FirstIndex(items, l) ==
    CHOOSE k \in 1..Len(items) :
        items[k].link = l /\ \A j \in 1..(k - 1) : items[j].link # l

LinksOf(items) == {items[k].link : k \in 1..Len(items)}

\* C7: the returned list holds no two items with the same link; for each link
\* of a candidate it holds the first candidate with that link, and nothing
\* else; and the returned items are in the order of their first occurrences.
C7_DedupFirstWins ==
    Returned =>
        LET items == Candidates(soup, base_url).items
            out   == extracted.out
        IN  /\ \A a, b \in 1..Len(out) : out[a].link = out[b].link => a = b
            /\ LinksOf(out) = LinksOf(items)
            /\ \A a \in 1..Len(out) : out[a] = items[FirstIndex(items, out[a].link)]
            /\ \A a, b \in 1..Len(out) :
                   a < b => FirstIndex(items, out[a].link) < FirstIndex(items, out[b].link)

\* Two candidates with different titles resolved to the same link, and one was dropped.
C7_Witness ==
    /\ Returned
    /\ LET items == Candidates(soup, base_url).items
       IN  /\ Len(extracted.out) < Len(items)
           /\ \E j, k \in 1..Len(items) :
                  j < k /\ items[j].link = items[k].link /\ items[j].title # items[k].title

\* C8: extract_items_generic never raises, whatever the document (links with
\* an empty or malformed href included) and the base URL, and it returns the
\* empty list when no tier finds an item.
C8_NeverRaises ==
    epc = "done" =>
        /\ ~extracted.raised
        /\ (SiteYield = <<>> /\ ArticleYield = <<>> /\ HeadingYield = <<>>) =>
               extracted.out = <<>>

(***************************************************************************)
(* C10                                                                     *)
(***************************************************************************)
\* The maximal runs of a-z0-9 characters of s, in order.
RECURSIVE TakeAlnum(_)
TakeAlnum(s) ==
    IF s # <<>> /\ IsLowerAlnum(Head(s)) THEN <<Head(s)>> \o TakeAlnum(Tail(s)) ELSE <<>>

RECURSIVE AlnumWords(_)
AlnumWords(s) ==
    IF s = <<>> THEN <<>>
    ELSE IF IsLowerAlnum(Head(s))
         THEN LET w == TakeAlnum(s)
              IN  <<w>> \o AlnumWords(SubSeq(s, Len(w) + 1, Len(s)))
    ELSE AlnumWords(Tail(s))

RECURSIVE JoinHyphen(_)
JoinHyphen(ws) ==
    IF ws = <<>> THEN <<>>
    ELSE IF Len(ws) = 1 THEN ws[1]
    ELSE ws[1] \o <<"-">> \o JoinHyphen(Tail(ws))

\* The slug as the claim describes it: the words of the lowercased text joined
\* by single hyphens, or "feed" when there is no word.
DescribedSlug(t) ==
    LET j == JoinHyphen(AlnumWords(Lower(t)))
    IN  IF j = <<>> THEN Feed ELSE j

WellFormedSlug(s) ==
    /\ s # <<>>
    /\ \A k \in 1..Len(s) : IsLowerAlnum(s[k]) \/ s[k] = "-"
    /\ s[1] # "-"
    /\ s[Len(s)] # "-"
    /\ \A k \in 1..(Len(s) - 1) : ~(s[k] = "-" /\ s[k + 1] = "-")

\* C10: slugify(text) is the lowercased text with every maximal run of
\* characters outside a-z0-9 replaced by one hyphen and the leading and trailing
\* hyphens removed, or "feed" when that is empty; the result is non-empty, is
\* made of a-z, 0-9 and '-', has no leading, trailing or doubled hyphen, and
\* slugify is idempotent; "Il Sole 24 Ore!" gives "il-sole-24-ore", "" gives "feed".
C10_SlugifyShape ==
    /\ spc \in {"slugged", "done"} =>
        /\ slug = DescribedSlug(text)
        /\ WellFormedSlug(slug)
        /\ text = <<>> => slug = Feed
        /\ text = IlSole24Ore =>
             slug = <<"i", "l", "-", "s", "o", "l", "e", "-", "2", "4", "-", "o", "r", "e">>
    /\ spc = "done" => reslug = slug

\* The example of the documentation has been slugified twice.
C10_Witness ==
    /\ spc = "done"
    /\ text = IlSole24Ore
    /\ Len(slug) = 14

====
